---- MODULE Spec2Model ----
(***************************************************************************)
(* A state-machine model of the AI2AI node runtime.                        *)
(*                                                                         *)
(* Part I  - the skill server: processMessage and its handlers             *)
(*           (src/src/ai2ai-server.js), the trust store                    *)
(*           (src/src/ai2ai-trust.js), the conversation store              *)
(*           (src/skill/ai2ai-conversations.js), the intent handlers, the  *)
(*           operator reply path and the outbox queue.                     *)
(* Part II - the SDK node's ingress filter chain (src/src/client.js with   *)
(*           src/src/security.js and src/src/reliability.js).              *)
(* Part III- the circuit breaker (src/src/reliability.js).                 *)
(***************************************************************************)
EXTENDS Integers, Sequences, FiniteSets, TLC

(***************************************************************************)
(* Bounds of the model                                                     *)
(***************************************************************************)
MaxNow == 8            \* horizon of the skill server's clock, in days
MaxOut == 1            \* outbox entries the skill server holds at a time
maxRetries == 2        \* stands for DEFAULT_RETRY_DELAYS.length (5 attempts)
TickStep == 4          \* days the clock advances in one step
RateLimitBound == 1    \* stands for RATE_LIMIT (20 messages per window)

(***************************************************************************)
(* Part I - the skill server                                               *)
(***************************************************************************)
VARIABLES
  now,          \* the skill server's clock (days)
  contacts,     \* contacts.json: agent -> contact record
  rateLimiter,  \* ai2ai-server.js rateLimiter: agent -> number of its timestamps
                \* that are younger than RATE_WINDOW
  convs,        \* conversations/<id>.meta.json: conversation -> metadata
  pending,      \* pending/<id>.json: envelope id -> approval record
  outbox,       \* outbox/<id>.json: queue id -> queue entry (timer: a retry is scheduled)
  out           \* what the last operation returned / put on the wire

skillVars == <<now, contacts, rateLimiter, convs, pending, outbox, out>>

\* Part II - the SDK node's ingress
VARIABLES
  nodeNow,      \* Date.now()
  blocked,      \* Blocklist.blocked
  windows,      \* RateLimiter.windows: key -> timestamps
  nonces,       \* NonceTracker.nonces: nonce -> timestamp (NotSeen: no entry)
  seen,         \* Deduplicator.seen: id -> timestamp (NotSeen: no entry)
  emittedAt,    \* history: id -> when its event was last emitted
  nonceUsedAt,  \* history: nonce -> when an envelope carrying it was last accepted
  granted,      \* history: key -> instant -> allowCall(key) steps that returned true
  resp          \* the response to the last POST and what the handler did

nodeVars == <<nodeNow, blocked, windows, nonces, seen, emittedAt, nonceUsedAt, granted,
              resp>>

\* Part III - one circuit breaker
VARIABLES
  cbNow,             \* Date.now()
  cbState,           \* this.state
  failures,          \* this.failures
  halfOpenAttempts,  \* this.halfOpenAttempts
  lastFailureTime,   \* this.lastFailureTime
  inFlight,          \* calls that passed the gate and await fn()
  openedAt,          \* history: when the breaker last became open
  cbOut              \* the last step of the breaker and the state it found

cbVars ==
  <<cbNow, cbState, failures, halfOpenAttempts, lastFailureTime, inFlight,
    openedAt, cbOut>>

\* Part IV - the SDK node's egress
VARIABLES
  phase,         \* envelope id -> where its send()/request() stands
  attempt,       \* envelope id -> attempt index of retryWithBackoff
  pq,            \* PersistentQueue directory: envelope id -> entry on disk
  dlq,           \* DeadLetterQueue directory: ids of its entries
  failedEvents,  \* envelope id -> 'failed' events emitted by deliveryTracker
  refusals,      \* history: consecutive connection refusals from the endpoint
  peerUp,        \* whether the peer's server is listening
  receipts,      \* deliveryTracker.receipts: envelope id -> status
  circuits,      \* whether this.circuits holds a breaker for the endpoint
  stopped,       \* whether stop() has returned
  egressOut      \* what the last step of _deliver did

egressVars == <<phase, attempt, pq, dlq, failedEvents, refusals, peerUp, receipts,
                circuits, stopped, egressOut>>

\* Part V - one outbox entry and the attemptDelivery calls working on it
VARIABLES
  entry,        \* outbox/<queueId>.json
  timers,       \* pending setTimeout callbacks that will call attemptDelivery
  running,      \* attemptDelivery calls awaiting sendFn: their in-memory entry.attempt
  started,      \* history: delivery attempts begun for the entry
  workerOut     \* the last step

workerVars == <<entry, timers, running, started, workerOut>>

\* Part VI - two skill servers and the one conversation between them
VARIABLES
  stores,       \* node -> its conversation store
  approval,     \* B's pending approval for A's request
  wire,         \* envelopes posted and not yet processed by their receiver
  sent,         \* history: the envelope types that have been sent
  pairOut       \* the last step

pairVars == <<stores, approval, wire, sent, pairOut>>

vars == <<skillVars, nodeVars, cbVars, egressVars, workerVars, pairVars>>

Agents == {"alice"}
EnvIds == {1}
ConvIds == {1}
NoKey == "nokey"
Keys == {"K1", "K2"}

\* ai2ai-trust.js TRUST_LEVELS; "undefined" is a contact record without the field
TRUST_LEVELS == {"none", "known", "trusted"}

\* An intent is <<namespace, action>>, the two halves of "namespace.action".
NullIntent == <<"null", "null">>
HANDLERS ==
  { <<"schedule", "meeting">>, <<"schedule", "call">>, <<"schedule", "group">>,
    <<"message", "relay">>, <<"info", "request">>, <<"info", "share">>,
    <<"social", "introduction">>,
    <<"commerce", "request">>, <<"commerce", "offer">>,
    <<"commerce", "accept">>, <<"commerce", "reject">> }

ALWAYS_APPROVE ==
  { <<"commerce", "request">>, <<"commerce", "offer">>, <<"commerce", "accept">>,
    <<"commerce", "reject">>, <<"task", "delegate">> }

\* The intents inbound envelopes are drawn from.
Intents ==
  { <<"schedule", "meeting">>, <<"info", "share">>,
    <<"commerce", "offer">>, <<"commerce", "accept">>, <<"commerce", "quote">>,
    NullIntent }

IsCommerce(intent) == intent[1] = "commerce"

getHandler(intent) == intent \in HANDLERS

\* The needsApproval field of the handler's result (payload flag reply_requested
\* matters to message.relay only).
HandlerNeedsApproval(intent, replyRequested) ==
  CASE intent \in { <<"schedule", "meeting">>, <<"schedule", "call">>,
                    <<"schedule", "group">>, <<"info", "request">>,
                    <<"social", "introduction">>,
                    <<"commerce", "request">>, <<"commerce", "offer">> } -> TRUE
    [] intent = <<"message", "relay">> -> replyRequested
    [] OTHER -> FALSE

HandlerAlwaysRequiresApproval(intent) ==
  intent \in { <<"commerce", "request">>, <<"commerce", "offer">> }

\* The operator's replies, lower-cased and trimmed.
Replies == {"accept", "decline", "2"}
DeclineWords == {"decline", "reject", "no", "deny"}

\* The type of the envelope formatResponse(humanReply) builds; "null" when the
\* handler has no formatResponse.
FormatResponse(intent, reply, replyRequested) ==
  CASE intent \in { <<"schedule", "meeting">>, <<"schedule", "call">>,
                    <<"schedule", "group">> } -> "response"
    [] intent = <<"message", "relay">> ->
         IF replyRequested THEN "response" ELSE "null"
    [] intent = <<"info", "request">> ->
         IF reply = "decline" THEN "reject" ELSE "response"
    [] intent = <<"social", "introduction">> ->
         IF reply = "accept" THEN "confirm" ELSE "reject"
    [] intent = <<"commerce", "request">> ->
         IF reply = "decline" THEN "reject" ELSE "response"
    [] intent = <<"commerce", "offer">> ->
         IF reply = "accept" THEN "confirm"
         ELSE IF reply \in {"decline", "reject"} THEN "reject" ELSE "response"
    [] OTHER -> "null"

(***************************************************************************)
(* Trust store                                                             *)
(***************************************************************************)
NoContact ==
  [exists |-> FALSE, trustLevel |-> "undefined", blocked |-> FALSE,
   publicKey |-> NoKey, endpoint |-> FALSE]

getContact(agentId) == contacts[agentId]

isBlocked(agentId) == contacts[agentId].exists /\ contacts[agentId].blocked

\* requiresApproval without its first line (the ALWAYS_APPROVE test).
requiresApprovalByTrustOnly(agentId, intent, type) ==
  IF ~contacts[agentId].exists THEN TRUE
  ELSE CASE contacts[agentId].trustLevel = "trusted" -> FALSE
         [] contacts[agentId].trustLevel = "known" -> type = "request"
         [] OTHER -> TRUE

\* requiresApproval letting unknown and untrusted senders through.
requiresApprovalTrusting(agentId, intent, type) ==
  IF intent \in ALWAYS_APPROVE THEN TRUE
  ELSE IF ~contacts[agentId].exists THEN FALSE
  ELSE CASE contacts[agentId].trustLevel = "trusted" -> intent \in ALWAYS_APPROVE
         [] contacts[agentId].trustLevel = "known" -> type = "request"
         [] OTHER -> FALSE

requiresApproval(agentId, intent, type) ==
  IF intent \in ALWAYS_APPROVE THEN TRUE
  ELSE IF ~contacts[agentId].exists THEN TRUE
  ELSE CASE contacts[agentId].trustLevel = "trusted" -> intent \in ALWAYS_APPROVE
         [] contacts[agentId].trustLevel = "known" -> type = "request"
         [] OTHER -> TRUE

(***************************************************************************)
(* Inbound envelopes                                                       *)
(***************************************************************************)
EnvTypes == {"ping", "request", "response", "confirm", "reject", "inform", "message"}

\* sig: the key whose private half signed the envelope as it arrives, "bad" for
\* a signature that matches no key (or a signed field changed), "none" when the
\* field is absent.  enc: payload readable (in the clear or decrypting), or
\* encrypted so that decryptPayloadX25519 returns null ("fail"), or encrypted
\* while the node's own X25519 key pair cannot be loaded ("keyerror").
\* pingKey: payload.public_key of a ping.
\* rr: payload.reply_requested.
Envelopes ==
  { e \in [id : EnvIds, from : Agents, type : EnvTypes, intent : Intents,
           conv : ConvIds, sig : Keys \cup {"none", "bad"},
           enc : {"plain", "fail", "keyerror"}, pingKey : Keys \cup {NoKey},
           rr : BOOLEAN] :
      /\ (e.type # "ping" => e.pingKey = NoKey /\ e.sig # "K2")
      /\ (e.type = "ping" => e.intent = NullIntent)
      /\ (e.type = "request" => e.intent # NullIntent)
      /\ (e.type # "request" => e.enc = "plain")
      /\ (e.type \in {"response", "confirm", "reject", "message"} =>
            e.intent = <<"schedule", "meeting">>)
      /\ (e.type = "inform" =>
            e.intent \in {<<"info", "share">>, <<"commerce", "quote">>,
                          <<"commerce", "accept">>})
      /\ (e.intent # <<"message", "relay">> => e.rr = FALSE) }

verifyMessage(e, signature, publicKey) == signature = publicKey

\* ai2ai-server.js checkRateLimit: the timestamps younger than RATE_WINDOW are
\* counted; the call is recorded only when it is allowed.
checkRateLimit(agentId) == rateLimiter[agentId] < RateLimitBound

RateLimiterAfter(agentId) ==
  IF checkRateLimit(agentId)
  THEN [rateLimiter EXCEPT ![agentId] = @ + 1]
  ELSE rateLimiter

\* maybeDecryptPayload: FALSE stands for the null it returns on failure.  When
\* loadOrCreateX25519Keys throws, the catch block returns the envelope as it
\* came, payload still encrypted.
maybeDecryptPayload(e) == e.enc # "fail"

(***************************************************************************)
(* Conversation store (src/skill/ai2ai-conversations.js)                   *)
(***************************************************************************)
STATES == {"proposed", "negotiating", "confirmed", "rejected", "expired"}
TerminalStates == {"confirmed", "rejected", "expired"}
conversationExpiryDays == 7
approvalTimeoutDays == 1
resolvedRetentionDays == 7

TRANSITIONS(state) ==
  CASE state = "proposed" -> {"negotiating", "confirmed", "rejected", "expired"}
    [] state = "negotiating" -> {"confirmed", "rejected", "expired"}
    [] OTHER -> {}

NoConv ==
  [exists |-> FALSE, state |-> "none", initiator |-> "none",
   expiresAt |-> 0, updatedAt |-> 0]

\* createConversation: the metadata file as written.
createConversation(cs, id, initiator) ==
  [cs EXCEPT ![id] = [exists |-> TRUE, state |-> "proposed",
                      initiator |-> initiator,
                      expiresAt |-> now + conversationExpiryDays,
                      updatedAt |-> now]]

\* transitionState: the store after the call (unchanged when it returns null).
transitionState(cs, id, newState) ==
  IF ~cs[id].exists THEN cs
  ELSE IF newState \notin TRANSITIONS(cs[id].state) THEN cs
  ELSE [cs EXCEPT ![id].state = newState, ![id].updatedAt = now]

\* updateConversation: Object.assign(meta, updates, {updatedAt}).  updates is
\* [state |-> s], s = "keep" when the updates carry no state field (the message
\* counter the server passes is not tracked).
updateConversation(cs, id, updates) ==
  IF ~cs[id].exists THEN cs
  ELSE [cs EXCEPT ![id].state = IF updates.state = "keep" THEN @ ELSE updates.state,
                  ![id].updatedAt = now]

(***************************************************************************)
(* Pending approvals                                                       *)
(***************************************************************************)
NoPending ==
  [exists |-> FALSE, from |-> "none", intent |-> NullIntent, conv |-> 0,
   handler |-> "none", rr |-> FALSE, createdAt |-> 0, resolved |-> FALSE,
   approved |-> FALSE, humanReply |-> "none", resolvedAt |-> 0]

\* savePendingApproval writing no file.
savePendingApprovalNothing(ps, e, handler) == ps

\* savePendingApproval(id, {envelope, approvalMessage, handler, createdAt}):
\* the file is written whole, whatever it held before.
savePendingApproval(ps, e, handler) ==
  [ps EXCEPT ![e.id] = [exists |-> TRUE, from |-> e.from, intent |-> e.intent,
                        conv |-> e.conv, handler |-> handler, rr |-> e.rr,
                        createdAt |-> now, resolved |-> FALSE, approved |-> FALSE,
                        humanReply |-> "none", resolvedAt |-> 0]]

resolvePendingApproval(ps, id, approved, humanReply) ==
  IF ~ps[id].exists THEN ps
  ELSE [ps EXCEPT ![id].resolved = TRUE, ![id].approved = approved,
                  ![id].humanReply = humanReply, ![id].resolvedAt = now]

(***************************************************************************)
(* Outbox queue                                                            *)
(***************************************************************************)
QueueIds == 1..MaxOut

NoEntry ==
  [exists |-> FALSE, to |-> "none", type |-> "none", attempt |-> 0,
   status |-> "none", timer |-> FALSE]

FreeQueueIds == { q \in QueueIds : ~outbox[q].exists }
NewQueueId == CHOOSE q \in FreeQueueIds : \A r \in FreeQueueIds : q <= r

\* enqueue(endpoint, envelope): a fresh outbox file.
enqueue(ob, q, to, type) ==
  [ob EXCEPT ![q] = [exists |-> TRUE, to |-> to, type |-> type, attempt |-> 0,
                     status |-> "queued", timer |-> FALSE]]

\* attemptDelivery may run: the entry is on disk and neither delivered nor failed.
CanAttempt(ob, q) == ob[q].exists /\ ob[q].status \notin {"delivered", "failed"}

\* attemptDelivery(queueId, sendFn, onFailure) with sendFn succeeding (ok) or
\* throwing: the outbox after the call.
attemptDelivery(ob, q, ok) ==
  IF ~CanAttempt(ob, q) THEN ob
  ELSE IF ok THEN [ob EXCEPT ![q] = NoEntry]
  ELSE IF ob[q].attempt + 1 >= maxRetries
       THEN [ob EXCEPT ![q].attempt = @ + 1, ![q].status = "failed",
                       ![q].timer = FALSE]
       ELSE [ob EXCEPT ![q].attempt = @ + 1, ![q].status = "retrying",
                       ![q].timer = TRUE]

(***************************************************************************)
(* What the last operation returned and put on the wire                    *)
(***************************************************************************)
OutBase ==
  [op |-> "init", id |-> 0, from |-> "none", type |-> "none",
   intent |-> NullIntent, sigCheck |-> "none", status |-> "none",
   reason |-> "none", sentTo |-> "none", sentType |-> "none", re |-> 0,
   logged |-> FALSE, enc |-> "none", had |-> FALSE, conv |-> 0,
   carried |-> "none", signedOver |-> "none"]

\* What step 3 of processMessage did with the signature: "nokey" and "nosig"
\* when it skipped the check (no key recorded / no signature field), else the
\* outcome of verifyMessage.
SigCheck(e) ==
  IF getContact(e.from).publicKey = NoKey THEN "nokey"
  ELSE IF e.sig = "none" THEN "nosig"
  ELSE IF verifyMessage(e, e.sig, getContact(e.from).publicKey) THEN "verified"
  ELSE "failed"

Response(e, status, reason, sigCheck) ==
  [OutBase EXCEPT !.op = "receive", !.id = e.id, !.from = e.from, !.type = e.type,
                  !.intent = e.intent, !.sigCheck = sigCheck, !.status = status,
                  !.reason = reason, !.logged = TRUE, !.enc = e.enc,
                  !.had = pending[e.id].exists, !.conv = e.conv]

\* A return of processMessage that comes before saveToConversation.
EarlyReturn(e, status, reason, sigCheck) ==
  [Response(e, status, reason, sigCheck) EXCEPT !.logged = FALSE]

\* A return of processMessage that comes before maybeDecryptPayload.
Rejected(e, reason, sigCheck) ==
  [EarlyReturn(e, "rejected", reason, sigCheck) EXCEPT !.enc = "none",
                                                       !.had = FALSE]

(***************************************************************************)
(* processMessage (src/src/ai2ai-server.js)                                *)
(***************************************************************************)
\* Step 3: the signature is checked only when a key is recorded and the
\* envelope carries a signature field.
SignatureRejected(e) ==
  /\ getContact(e.from).publicKey # NoKey
  /\ e.sig # "none"
  /\ ~verifyMessage(e, e.sig, getContact(e.from).publicKey)

\* Step 6: create the metadata on first sight, else bump the message counter.
TrackConversation(e) ==
  IF ~convs[e.conv].exists
  THEN createConversation(convs, e.conv, e.from)
  ELSE updateConversation(convs, e.conv, [state |-> "keep"])

\* handlePing writing 'none' whatever level was recorded.
PingTrustLevelReset(c) == "none"

\* handlePing: getContact(fromAgentId)?.trustLevel || 'none'.
PingTrustLevel(c) == IF c.trustLevel = "undefined" THEN "none" ELSE c.trustLevel

\* handlePing: upsertContact with the sender's announced key.
handlePing(e) ==
  /\ contacts' = [contacts EXCEPT ![e.from] =
        [exists |-> TRUE,
         trustLevel |-> PingTrustLevel(@),
         blocked |-> @.blocked, publicKey |-> e.pingKey, endpoint |-> @.endpoint]]
  /\ convs' = TrackConversation(e)
  /\ out' = Response(e, "ok", "ping", SigCheck(e))
  /\ UNCHANGED pending

NeedsApproval(e) ==
  \/ HandlerAlwaysRequiresApproval(e.intent)
  \/ HandlerNeedsApproval(e.intent, e.rr)
  \/ requiresApproval(e.from, e.intent, e.type)

handleRequest(e) ==
  IF ~getHandler(e.intent)
  THEN /\ convs' = TrackConversation(e)
       /\ out' = Response(e, "error", "unsupported_intent", SigCheck(e))
       /\ UNCHANGED <<contacts, pending>>
  ELSE IF NeedsApproval(e)
  THEN /\ pending' = savePendingApproval(pending, e, "intent")
       /\ convs' = transitionState(TrackConversation(e), e.conv, "negotiating")
       /\ out' = Response(e, "pending_approval", "none", SigCheck(e))
       /\ UNCHANGED contacts
  ELSE /\ convs' = TrackConversation(e)
       /\ out' = Response(e, "ok", "processed", SigCheck(e))
       /\ UNCHANGED <<contacts, pending>>

handleReply(e) ==
  /\ convs' = IF e.type = "confirm"
              THEN transitionState(TrackConversation(e), e.conv, "confirmed")
              ELSE IF e.type = "reject"
              THEN transitionState(TrackConversation(e), e.conv, "rejected")
              ELSE TrackConversation(e)
  /\ pending' = savePendingApproval(pending, e, "reply")
  /\ out' = Response(e, "ok", "reply", SigCheck(e))
  /\ UNCHANGED contacts

handleInform(e) ==
  /\ convs' = TrackConversation(e)
  /\ pending' = IF getHandler(e.intent)
                THEN savePendingApproval(pending, e, "intent") ELSE pending
  /\ out' = Response(e, "ok", "inform", SigCheck(e))
  /\ UNCHANGED contacts

Dispatch(e) ==
  CASE e.type = "ping" -> handlePing(e)
    [] e.type = "request" -> handleRequest(e)
    [] e.type \in {"response", "confirm", "reject"} -> handleReply(e)
    [] e.type = "inform" -> handleInform(e)
    [] OTHER -> /\ convs' = TrackConversation(e)
                /\ out' = Response(e, "error", "unknown_type", SigCheck(e))
                /\ UNCHANGED <<contacts, pending>>

processMessage(e) ==
  /\ IF isBlocked(e.from)
     THEN /\ out' = Rejected(e, "blocked", "none")
          /\ UNCHANGED <<contacts, rateLimiter, convs, pending>>
     ELSE IF ~checkRateLimit(e.from)
     THEN /\ out' = Rejected(e, "rate_limited", "none")
          /\ UNCHANGED <<contacts, rateLimiter, convs, pending>>
     ELSE /\ rateLimiter' = RateLimiterAfter(e.from)
          /\ IF SignatureRejected(e)
             THEN /\ out' = Rejected(e, "invalid_signature", SigCheck(e))
                  /\ UNCHANGED <<contacts, convs, pending>>
             ELSE IF ~maybeDecryptPayload(e)
             THEN /\ out' = EarlyReturn(e, "error", "decryption_failed", SigCheck(e))
                  /\ UNCHANGED <<contacts, convs, pending>>
             ELSE Dispatch(e)
  /\ UNCHANGED <<now, outbox, nodeVars, cbVars, egressVars, workerVars, pairVars>>

\* Envelopes that carry no signature, no key and a readable payload.
PlainEnvelopes ==
  { e \in Envelopes : e.sig = "none" /\ e.enc = "plain" /\ e.pingKey = NoKey }

Receive == \E e \in Envelopes : processMessage(e)

ReceivePlain == \E e \in PlainEnvelopes : processMessage(e)

ReceiveRequest ==
  \E e \in PlainEnvelopes : e.type \in {"request", "inform"} /\ processMessage(e)

(***************************************************************************)
(* Operator actions on the trust store (src/src/ai2ai-trust.js)            *)
(***************************************************************************)
OperatorOut == [OutBase EXCEPT !.op = "operator"]

\* upsertContact(agentId, {endpoint}): how the operator records a peer.
AddContact(a) ==
  /\ contacts' = [contacts EXCEPT ![a].exists = TRUE, ![a].endpoint = TRUE]
  /\ out' = OperatorOut
  /\ UNCHANGED <<now, rateLimiter, convs, pending, outbox, nodeVars, cbVars, egressVars, workerVars, pairVars>>

setTrustLevel(a, level) ==
  /\ level \in TRUST_LEVELS
  /\ contacts' = [contacts EXCEPT ![a].exists = TRUE, ![a].trustLevel = level]
  /\ out' = OperatorOut
  /\ UNCHANGED <<now, rateLimiter, convs, pending, outbox, nodeVars, cbVars, egressVars, workerVars, pairVars>>

blockAgent(a) ==
  /\ contacts' = [contacts EXCEPT ![a].exists = TRUE, ![a].blocked = TRUE]
  /\ out' = OperatorOut
  /\ UNCHANGED <<now, rateLimiter, convs, pending, outbox, nodeVars, cbVars, egressVars, workerVars, pairVars>>

(***************************************************************************)
(* Outbound: sendMessage (src/src/ai2ai-client.js) and the outbox          *)
(***************************************************************************)
\* createEnvelope: the version of the payload that signMessage signs, the
\* payload as the caller passed it.
SignedPayload == "plain"

\* maybeEncryptEnvelope: the payload the envelope carries afterwards.  encrypts:
\* encryption is enabled, the recipient's X25519 key is on file and
\* encryptPayloadX25519 returned a ciphertext.
maybeEncryptEnvelope(payload, encrypts) == IF encrypts THEN "cipher" ELSE payload

\* sendMessage(endpoint, envelope) to agent `to`: okDirect is the outcome of the
\* direct rawSend, okQueued that of the first queued attempt that follows a
\* failed direct send.  wire: rawSend was invoked.  carried: the payload of
\* the envelope handed to rawSend.
sendMessage(to, type, okDirect, okQueued, encrypts) ==
  IF isBlocked(to)
  THEN [threw |-> TRUE, wire |-> FALSE, contacts |-> contacts, outbox |-> outbox,
        carried |-> "none"]
  ELSE IF okDirect
  THEN [threw |-> FALSE, wire |-> TRUE,
        contacts |-> [contacts EXCEPT ![to].exists = TRUE, ![to].endpoint = TRUE],
        outbox |-> outbox,
        carried |-> maybeEncryptEnvelope(SignedPayload, encrypts)]
  ELSE [threw |-> FALSE, wire |-> TRUE, contacts |-> contacts,
        outbox |-> attemptDelivery(enqueue(outbox, NewQueueId, to, type),
                                   NewQueueId, okQueued),
        carried |-> maybeEncryptEnvelope(SignedPayload, encrypts)]

\* A send that may have to queue needs a free outbox slot in the model.
SlotFor(to, okDirect) == isBlocked(to) \/ okDirect \/ FreeQueueIds # {}

\* isApproved without the list of declining words.
IsApprovedAlways(reply) == TRUE

IsApproved(reply) == reply \notin DeclineWords

\* The type of the envelope handleHumanReply sends for approval p, "null" for none.
ReplyType(p, reply) ==
  IF ~IsApproved(reply) THEN "reject"
  ELSE IF getHandler(p.intent) /\ p.handler # "reply"
       THEN FormatResponse(p.intent, reply, p.rr)
       ELSE "null"

handleHumanReply(id, reply, okDirect, okQueued, encrypts) ==
  IF ~(pending[id].exists /\ ~pending[id].resolved)
  THEN /\ out' = [OutBase EXCEPT !.op = "reply", !.re = id, !.status = "not_found"]
       /\ UNCHANGED <<now, contacts, rateLimiter, convs, pending, outbox>>
  ELSE LET p == pending[id]
           type == ReplyType(p, reply)
           sends == type # "null" /\ getContact(p.from).exists
                                  /\ getContact(p.from).endpoint
           r == sendMessage(p.from, type, okDirect, okQueued, encrypts)
       IN /\ sends => SlotFor(p.from, okDirect)
          /\ pending' = resolvePendingApproval(pending, id, IsApproved(reply), reply)
          /\ contacts' = IF sends THEN r.contacts ELSE contacts
          /\ outbox' = IF sends THEN r.outbox ELSE outbox
          /\ out' = [OutBase EXCEPT
                       !.op = "reply", !.re = id,
                       !.status = IF IsApproved(reply) THEN "approved" ELSE "declined",
                       !.sentTo = IF sends /\ r.wire THEN p.from ELSE "none",
                       !.sentType = IF sends /\ r.wire THEN type ELSE "none",
                       !.carried = IF sends THEN r.carried ELSE "none",
                       !.signedOver = IF sends /\ r.wire THEN SignedPayload
                                      ELSE "none"]
          /\ UNCHANGED <<now, rateLimiter, convs>>

HumanReply ==
  \E id \in EnvIds, reply \in Replies, okDirect \in BOOLEAN, okQueued \in BOOLEAN,
     encrypts \in BOOLEAN :
    /\ handleHumanReply(id, reply, okDirect, okQueued, encrypts)
    /\ UNCHANGED <<nodeVars, cbVars, egressVars, workerVars, pairVars>>

\* requestMeeting(endpoint, ...): a fresh conversation, then sendMessage.  The
\* operator command resolves the contact's endpoint first.
requestMeeting(to, c, okDirect, okQueued, encrypts) ==
  LET r == sendMessage(to, "request", okDirect, okQueued, encrypts) IN
  /\ getContact(to).exists /\ getContact(to).endpoint
  /\ ~convs[c].exists
  /\ SlotFor(to, okDirect)
  /\ convs' = createConversation(convs, c, "self")
  /\ contacts' = r.contacts
  /\ outbox' = r.outbox
  /\ out' = [OutBase EXCEPT !.op = "send",
                            !.status = IF r.threw THEN "threw" ELSE "sent",
                            !.sentTo = IF r.wire THEN to ELSE "none",
                            !.sentType = IF r.wire THEN "request" ELSE "none",
                            !.carried = r.carried,
                            !.signedOver = IF r.wire THEN SignedPayload ELSE "none"]
  /\ UNCHANGED <<now, rateLimiter, pending, nodeVars, cbVars, egressVars, workerVars, pairVars>>

SendRequest ==
  \E to \in Agents, c \in ConvIds, okDirect \in BOOLEAN, okQueued \in BOOLEAN,
     encrypts \in BOOLEAN :
    requestMeeting(to, c, okDirect, okQueued, encrypts)

\* A retry timer set by attemptDelivery fires and runs attemptDelivery again.
RetryTimerFires(q, ok) ==
  /\ outbox[q].exists /\ outbox[q].timer
  /\ outbox' = attemptDelivery([outbox EXCEPT ![q].timer = FALSE], q, ok)
  /\ out' = [OutBase EXCEPT !.op = "retry", !.sentTo = outbox[q].to,
                            !.sentType = outbox[q].type]
  /\ UNCHANGED <<now, contacts, rateLimiter, convs, pending, nodeVars, cbVars, egressVars, workerVars, pairVars>>

Retry == \E q \in QueueIds, ok \in BOOLEAN : RetryTimerFires(q, ok)

(***************************************************************************)
(* Maintenance and time                                                    *)
(***************************************************************************)
\* expireConversations: every non-terminal conversation past expiresAt.
expireConversations(cs) ==
  [c \in ConvIds |->
     IF cs[c].exists /\ cs[c].state \notin TerminalStates /\ now > cs[c].expiresAt
     THEN transitionState(cs, c, "expired")[c]
     ELSE cs[c]]

AutoRejectReply == "Auto-rejected: approval timed out"

\* createdAt < cutoff, with cutoff = Date.now() - timeoutHours * 3600000.
StaleApprovalNever(p) == FALSE

StaleApproval(p) == p.createdAt < now - approvalTimeoutDays

\* cleanupPendingApprovals(timeoutHours = 24).
cleanupPendingApprovals(ps) ==
  [id \in EnvIds |->
     IF ~ps[id].exists THEN ps[id]
     ELSE IF ps[id].resolved
     THEN (IF ps[id].resolvedAt < now - resolvedRetentionDays
           THEN NoPending ELSE ps[id])
     ELSE IF StaleApproval(ps[id])
     THEN resolvePendingApproval(ps, id, FALSE, AutoRejectReply)[id]
     ELSE ps[id]]

runMaintenance ==
  /\ convs' = expireConversations(convs)
  /\ pending' = cleanupPendingApprovals(pending)
  /\ out' = [OutBase EXCEPT !.op = "maintenance"]
  /\ UNCHANGED <<now, contacts, rateLimiter, outbox, nodeVars, cbVars, egressVars, workerVars, pairVars>>

\* RATE_WINDOW (one minute) passes: every recorded timestamp leaves the window.
WindowPasses ==
  /\ \E a \in Agents : rateLimiter[a] > 0
  /\ rateLimiter' = [a \in Agents |-> 0]
  /\ out' = [OutBase EXCEPT !.op = "tick"]
  /\ UNCHANGED <<now, contacts, convs, pending, outbox, nodeVars, cbVars, egressVars, workerVars, pairVars>>

\* Days pass.
Tick ==
  /\ now + TickStep <= MaxNow
  /\ now' = now + TickStep
  /\ rateLimiter' = [a \in Agents |-> 0]
  /\ out' = [OutBase EXCEPT !.op = "tick"]
  /\ UNCHANGED <<contacts, convs, pending, outbox, nodeVars, cbVars, egressVars, workerVars, pairVars>>

(***************************************************************************)
(* The conversation store's exported API called directly                   *)
(***************************************************************************)
TransitionStateCall ==
  \E c \in ConvIds, s \in STATES :
    /\ convs' = transitionState(convs, c, s)
    /\ out' = [OutBase EXCEPT !.op = "transitionState"]
    /\ UNCHANGED <<now, contacts, rateLimiter, pending, outbox, nodeVars, cbVars, egressVars, workerVars, pairVars>>

UpdateConversationCall ==
  \E c \in ConvIds, s \in STATES \cup {"keep"} :
    /\ convs' = updateConversation(convs, c, [state |-> s])
    /\ out' = [OutBase EXCEPT !.op = "updateConversation"]
    /\ UNCHANGED <<now, contacts, rateLimiter, pending, outbox, nodeVars, cbVars, egressVars, workerVars, pairVars>>

(***************************************************************************)
(* The skill server as a state machine                                     *)
(***************************************************************************)
SkillInit ==
  /\ now = 0
  /\ contacts = [a \in Agents |-> NoContact]
  /\ rateLimiter = [a \in Agents |-> 0]
  /\ convs = [c \in ConvIds |-> NoConv]
  /\ pending = [id \in EnvIds |-> NoPending]
  /\ outbox = [q \in QueueIds |-> NoEntry]
  /\ out = OutBase

TrustOps ==
  \E a \in Agents :
    \/ \E level \in TRUST_LEVELS : setTrustLevel(a, level)
    \/ blockAgent(a)

ContactOps ==
  \E a \in Agents :
    \/ AddContact(a)
    \/ blockAgent(a)

Contacts == \E a \in Agents : AddContact(a)

(***************************************************************************)
(* Part II - the SDK node's ingress (src/src/client.js _handleRequest)     *)
(***************************************************************************)
MaxNodeNow == 2        \* horizon of the node's clock
windowMs == 1          \* stands for RateLimiter windowMs (60 000 ms)
maxRequests == 2       \* stands for RateLimiter maxRequests (20)
cacheTtl == 1          \* stands for Deduplicator ttl and NonceTracker maxAge (1 h)
maxSize == 1           \* stands for the caches' maxSize (10 000)
messageTTL == 1        \* stands for opts.messageTTL (24 h)

NodeIds == {1, 2}
NoNonce == 0
Nonces == {1, 2}
NotSeen == -1
NoTimestamp == -9
NoExpiresAt == -8

\* Inbound POST bodies that parse as JSON.  type "none": the field is missing.
\* sigOk: the signature verifies against the sender's key.
NodeEnvelopes ==
  [id : NodeIds, nonce : Nonces \cup {NoNonce}, from : Agents,
   type : {"request", "none"},
   timestamp : {nodeNow - messageTTL, nodeNow - messageTTL - 1},
   expiresAt : {NoExpiresAt},
   sigOk : BOOLEAN]

\* Inbound requests that differ in their timestamp and expiresAt fields: no
\* timestamp, the oldest one inside messageTTL, one older, one ahead of the
\* node's clock; no expiresAt, one that has passed, one still to come.
StampedEnvelopes ==
  [id : NodeIds, nonce : {NoNonce}, from : Agents, type : {"request"},
   timestamp : {NoTimestamp, nodeNow - messageTTL, nodeNow - messageTTL - 1,
                nodeNow + 1},
   expiresAt : {NoExpiresAt, nodeNow, nodeNow + 1},
   sigOk : {TRUE}]

\* RateLimiter.allow(key)
\* The limiter's keys: the agents that post, and one more key.
RateKeys == Agents \cup {"endpoint"}

RateFiltered(key) == SelectSeq(windows[key], LAMBDA t : t > nodeNow - windowMs)

\* allow letting one more call through.
allowOneMore(key) == Len(RateFiltered(key)) <= maxRequests

allow(key) == Len(RateFiltered(key)) < maxRequests

GrantedAfterAllow(key) ==
  IF allow(key) THEN [granted EXCEPT ![key][nodeNow] = @ + 1] ELSE granted

WindowsAfterAllow(key) ==
  [windows EXCEPT ![key] = IF allow(key) THEN Append(RateFiltered(key), nodeNow)
                           ELSE RateFiltered(key)]

isMessageExpired(e, maxAgeMs) ==
  IF e.timestamp = NoTimestamp THEN FALSE
  ELSE nodeNow - e.timestamp > maxAgeMs

\* The _cleanup of both caches: nothing while size <= maxSize, else every entry
\* older than maxAge goes.
CacheSize(cache) == Cardinality({k \in DOMAIN cache : cache[k] # NotSeen})

CacheCleanup(cache, maxAge) ==
  IF CacheSize(cache) <= maxSize THEN cache
  ELSE [k \in DOMAIN cache |->
          IF cache[k] # NotSeen /\ cache[k] < nodeNow - maxAge THEN NotSeen
          ELSE cache[k]]

\* isReplay finding no nonce ever.
isReplayNever(ns, nonce) == FALSE

\* NonceTracker.isReplay(nonce): the answer, and the map after the call.
isReplay(ns, nonce) == CacheCleanup(ns, cacheTtl)[nonce] # NotSeen

NoncesAfterIsReplay(ns, nonce) ==
  IF isReplay(ns, nonce) THEN CacheCleanup(ns, cacheTtl)
  ELSE [CacheCleanup(ns, cacheTtl) EXCEPT ![nonce] = nodeNow]

\* isDuplicate finding no id ever.
isDuplicateNever(sn, messageId) == FALSE

\* Deduplicator.isDuplicate(messageId): the answer, and the map after the call.
isDuplicate(sn, messageId) == CacheCleanup(sn, cacheTtl)[messageId] # NotSeen

SeenAfterIsDuplicate(sn, messageId) ==
  IF isDuplicate(sn, messageId) THEN CacheCleanup(sn, cacheTtl)
  ELSE [CacheCleanup(sn, cacheTtl) EXCEPT ![messageId] = nodeNow]

\* How far the filter chain of _handleRequest lets the envelope go, in the
\* order of the code: shape, blocklist, rate limit, expiry, nonce, dedup.
FilterVerdict(e) ==
  IF e.type = "none" THEN "invalid_envelope"
  ELSE IF e.from \in blocked THEN "blocked"
  ELSE IF ~allow(e.from) THEN "rate_limited"
  ELSE IF isMessageExpired(e, messageTTL) THEN "message_expired"
  ELSE IF e.nonce # NoNonce /\ isReplay(nonces, e.nonce) THEN "replay_detected"
  ELSE IF isDuplicate(seen, e.id) THEN "duplicate"
  ELSE "ok"

StatusCode(verdict) ==
  CASE verdict \in {"ok", "duplicate"} -> 200
    [] verdict = "blocked" -> 403
    [] verdict = "rate_limited" -> 429
    [] OTHER -> 400

RespBase ==
  [op |-> "init", code |-> 0, status |-> "none",
   emitted |-> FALSE, sigOk |-> TRUE, dedupTouched |-> FALSE,
   idAge |-> NotSeen, nonceAge |-> NotSeen, tsAge |-> NoTimestamp,
   expiresIn |-> NoExpiresAt, key |-> "none"]

Age(at) == IF at = NotSeen THEN NotSeen ELSE nodeNow - at

_handleRequest(e) ==
  LET v == FilterVerdict(e)
      reachedRate == v \notin {"invalid_envelope", "blocked"}
      reachedExpiry == reachedRate /\ v # "rate_limited"
      reachedNonce == reachedRate /\ v \notin {"rate_limited", "message_expired"}
      reachedDedup == reachedNonce /\ v # "replay_detected"
  IN /\ windows' = IF reachedRate THEN WindowsAfterAllow(e.from) ELSE windows
     /\ UNCHANGED granted
     /\ nonces' = IF reachedNonce /\ e.nonce # NoNonce
                  THEN NoncesAfterIsReplay(nonces, e.nonce) ELSE nonces
     /\ seen' = IF reachedDedup THEN SeenAfterIsDuplicate(seen, e.id) ELSE seen
     /\ emittedAt' = IF v = "ok" THEN [emittedAt EXCEPT ![e.id] = nodeNow]
                     ELSE emittedAt
     /\ nonceUsedAt' = IF reachedDedup /\ e.nonce # NoNonce
                       THEN [nonceUsedAt EXCEPT ![e.nonce] = nodeNow]
                       ELSE nonceUsedAt
     /\ resp' = [op |-> "post",
                 code |-> StatusCode(v), status |-> v, emitted |-> (v = "ok"),
                 sigOk |-> e.sigOk, dedupTouched |-> reachedDedup,
                 idAge |-> Age(emittedAt[e.id]),
                 nonceAge |-> IF e.nonce = NoNonce THEN NotSeen
                              ELSE Age(nonceUsedAt[e.nonce]),
                 tsAge |-> IF e.timestamp = NoTimestamp \/ ~reachedExpiry
                           THEN NoTimestamp ELSE nodeNow - e.timestamp,
                 expiresIn |-> IF e.expiresAt = NoExpiresAt \/ ~reachedExpiry
                               THEN NoExpiresAt ELSE e.expiresAt - nodeNow,
                 key |-> "none"]
     /\ UNCHANGED <<nodeNow, blocked, skillVars, cbVars, egressVars, workerVars, pairVars>>

Post == \E e \in NodeEnvelopes : _handleRequest(e)

\* One call of RateLimiter.allow(key).
allowCall(key) ==
  /\ windows' = WindowsAfterAllow(key)
  /\ granted' = GrantedAfterAllow(key)
  /\ resp' = [RespBase EXCEPT !.op = "allow", !.key = key,
                              !.status = IF allow(key) THEN "granted" ELSE "denied"]
  /\ UNCHANGED <<nodeNow, blocked, nonces, seen, emittedAt, nonceUsedAt, skillVars,
                 cbVars, egressVars, workerVars, pairVars>>

allowCalls == \E key \in RateKeys : allowCall(key)

PostStamped == \E e \in StampedEnvelopes : _handleRequest(e)

block(agentId) ==
  /\ blocked' = blocked \cup {agentId}
  /\ resp' = [RespBase EXCEPT !.op = "block"]
  /\ UNCHANGED <<nodeNow, windows, nonces, seen, emittedAt, nonceUsedAt, granted, skillVars, cbVars, egressVars, workerVars, pairVars>>

unblock(agentId) ==
  /\ blocked' = blocked \ {agentId}
  /\ resp' = [RespBase EXCEPT !.op = "unblock"]
  /\ UNCHANGED <<nodeNow, windows, nonces, seen, emittedAt, nonceUsedAt, granted, skillVars, cbVars, egressVars, workerVars, pairVars>>

BlocklistOps == \E a \in Agents : block(a) \/ unblock(a)

NodeTick ==
  /\ nodeNow < MaxNodeNow
  /\ nodeNow' = nodeNow + 1
  /\ resp' = [RespBase EXCEPT !.op = "tick"]
  /\ UNCHANGED <<blocked, windows, nonces, seen, emittedAt, nonceUsedAt, granted, skillVars, cbVars, egressVars, workerVars, pairVars>>

NodeInit ==
  /\ nodeNow = 0
  /\ blocked = {}
  /\ windows = [k \in RateKeys |-> << >>]
  /\ granted = [k \in RateKeys |-> [t \in 0..MaxNodeNow |-> 0]]
  /\ nonces = [n \in Nonces |-> NotSeen]
  /\ seen = [i \in NodeIds |-> NotSeen]
  /\ emittedAt = [i \in NodeIds |-> NotSeen]
  /\ nonceUsedAt = [n \in Nonces |-> NotSeen]
  /\ resp = RespBase

(***************************************************************************)
(* Part III - the circuit breaker (src/src/reliability.js CircuitBreaker)  *)
(***************************************************************************)
failureThreshold == 2  \* opts.failureThreshold
resetTimeout == 2      \* opts.resetTimeout
halfOpenMax == 1       \* opts.halfOpenMax
MaxCbNow == 4          \* horizon of the breaker's clock
MaxInFlight == 2       \* execute() calls awaiting fn() at a time

CIRCUIT_STATES == {"closed", "open", "half-open"}

NeverOpened == -1      \* openedAt of a breaker that has not opened since construction or reset()

CbOutBase ==
  [op |-> "init", result |-> "none", invoked |-> FALSE, stateBefore |-> "closed",
   elapsed |-> 0, failuresBefore |-> 0, attemptsBefore |-> 0]

CbOut(op, result, invoked) ==
  [op |-> op, result |-> result, invoked |-> invoked, stateBefore |-> cbState,
   elapsed |-> cbNow - lastFailureTime, failuresBefore |-> failures,
   attemptsBefore |-> halfOpenAttempts]

\* execute(fn) up to its await: "open" and "half-open-max" are the two errors
\* thrown before fn is called, "admitted" is fn being called.
TimeoutElapsed == cbNow - lastFailureTime >= resetTimeout

\* The half-open test one attempt late.
HalfOpenFullLate(attempts) == attempts > halfOpenMax

\* The test of execute() that turns a caller away from a half-open breaker.
HalfOpenFull(attempts) == attempts >= halfOpenMax

\* The gate with the breaker taken out.
GateAlwaysAdmits == "admitted"

GateVerdict ==
  IF cbState = "open" /\ ~TimeoutElapsed THEN "open"
  ELSE IF (cbState = "open" \/ cbState = "half-open")
          /\ HalfOpenFull(IF cbState = "open" THEN 0 ELSE halfOpenAttempts)
       THEN "half-open-max"
  ELSE "admitted"

\* What execute() does to the breaker before it awaits fn().
executeGate ==
  /\ cbState' = IF cbState = "open" /\ TimeoutElapsed THEN "half-open" ELSE cbState
  /\ halfOpenAttempts' =
       IF cbState = "open" /\ TimeoutElapsed
       THEN (IF GateVerdict = "admitted" THEN 1 ELSE 0)
       ELSE IF cbState = "half-open" /\ GateVerdict = "admitted"
       THEN halfOpenAttempts + 1
       ELSE halfOpenAttempts
  /\ inFlight' = IF GateVerdict = "admitted" THEN inFlight + 1 ELSE inFlight
  /\ cbOut' = CbOut("execute", GateVerdict, GateVerdict = "admitted")
  /\ UNCHANGED <<cbNow, failures, lastFailureTime, openedAt>>

execute ==
  /\ GateVerdict = "admitted" => inFlight < MaxInFlight
  /\ executeGate
  /\ UNCHANGED <<skillVars, nodeVars, egressVars, workerVars, pairVars>>

\* What _onSuccess does to the breaker.
onSuccessUpdate ==
  /\ inFlight' = inFlight - 1
  /\ failures' = 0
  /\ cbState' = "closed"
  /\ cbOut' = CbOut("success", "none", FALSE)
  /\ UNCHANGED <<cbNow, halfOpenAttempts, lastFailureTime, openedAt>>

\* fn() resolved: _onSuccess.
_onSuccess ==
  /\ inFlight > 0
  /\ onSuccessUpdate
  /\ UNCHANGED <<skillVars, nodeVars, egressVars, workerVars, pairVars>>

\* The threshold test one failure late.
ThresholdReachedLate(count) == count > failureThreshold

\* The test of _onFailure that opens a closed breaker.
ThresholdReached(count) == count >= failureThreshold

\* The state _onFailure leaves the breaker in.
StateAfterFailure ==
  IF ThresholdReached(failures + 1) /\ cbState = "closed" THEN "open"
  ELSE IF cbState = "half-open" THEN "open"
  ELSE cbState

\* What _onFailure does to the breaker.
onFailureUpdate ==
  /\ inFlight' = inFlight - 1
  /\ failures' = failures + 1
  /\ lastFailureTime' = cbNow
  /\ cbState' = StateAfterFailure
  /\ openedAt' = IF cbState # "open" /\ StateAfterFailure = "open" THEN cbNow
                 ELSE openedAt
  /\ cbOut' = CbOut("failure", "none", FALSE)
  /\ UNCHANGED <<cbNow, halfOpenAttempts>>

\* fn() rejected: _onFailure.
_onFailure ==
  /\ inFlight > 0
  /\ onFailureUpdate
  /\ UNCHANGED <<skillVars, nodeVars, egressVars, workerVars, pairVars>>

reset ==
  /\ cbState' = "closed"
  /\ failures' = 0
  /\ halfOpenAttempts' = 0
  /\ openedAt' = NeverOpened
  /\ cbOut' = CbOut("reset", "none", FALSE)
  /\ UNCHANGED <<cbNow, lastFailureTime, inFlight, skillVars, nodeVars, egressVars, workerVars, pairVars>>

CbTick ==
  /\ cbNow < MaxCbNow
  /\ cbNow' = cbNow + 1
  /\ cbOut' = CbOut("tick", "none", FALSE)
  /\ UNCHANGED <<cbState, failures, halfOpenAttempts, lastFailureTime, inFlight,
                 openedAt, skillVars, nodeVars, egressVars, workerVars, pairVars>>

CbInit ==
  /\ cbNow = 0
  /\ cbState = "closed"
  /\ failures = 0
  /\ halfOpenAttempts = 0
  /\ lastFailureTime = 0
  /\ inFlight = 0
  /\ openedAt = NeverOpened
  /\ cbOut = CbOutBase

(***************************************************************************)
(* Part IV - the SDK node's egress: _deliver, retryWithBackoff, _rawSend   *)
(* (src/src/client.js) over the endpoint's circuit breaker of Part III and *)
(* the PersistentQueue (src/src/reliability.js)                            *)
(***************************************************************************)
sdkMaxRetries == 1     \* stands for maxRetries: 3 of the retryWithBackoff call
MaxEnvelopes == 3      \* envelopes the node sends

EgressIds == 1..MaxEnvelopes

\* The targets of send()/request(): a contact with an endpoint, an agent with
\* no endpoint, a contact that is on the blocklist.
Targets == {"peer", "unresolvable", "blocked"}

\* What one _rawSend can end in: ECONNREFUSED and the request timeout while
\* the peer is down, an HTTP status while it is up.
Rejections == {"400", "403", "413", "429"}
Outcomes == IF peerUp THEN {"200", "500"} \cup Rejections ELSE {"refused", "timeout"}

NoQueueEntry == [exists |-> FALSE, attempts |-> 0, expiresAt |-> 0, status |-> "none"]

EgressOutBase ==
  [op |-> "init", id |-> 0, result |-> "none", error |-> "none", io |-> FALSE,
   attemptNo |-> 0, target |-> "none", status |-> "none", slept |-> FALSE]

\* DeliveryTracker: the status kept per message id.
RECEIPT_STATUS == {"sent", "delivered", "read", "failed"}
NoReceipt == "none"

trackSent(r, id) == [r EXCEPT ![id] = "sent"]

markDelivered(r, id) == IF r[id] # NoReceipt THEN [r EXCEPT ![id] = "delivered"] ELSE r

markRead(r, id) == IF r[id] # NoReceipt THEN [r EXCEPT ![id] = "read"] ELSE r

markFailed(r, id) == [r EXCEPT ![id] = "failed"]

\* _deliver's two throws before it touches anything: no endpoint after the
\* contact map and the registry, or a target on the blocklist.
CannotDeliverNever(target) == FALSE

CannotDeliver(target) == target # "peer"

\* PersistentQueue.enqueue with opts.ttl = this.messageTTL.
PqEnqueueNothing(q, id) == q

PqEnqueue(q, id) ==
  [q EXCEPT ![id] = [exists |-> TRUE, attempts |-> 0,
                     expiresAt |-> cbNow + messageTTL, status |-> "pending"]]

\* _deliver up to the first _rawSend: endpoint resolution, the blocklist, the
\* breaker's gate; a gate that throws ends in the catch block (markFailed,
\* queue.enqueue, {status: 'queued'}).
DeliverBegin(id, target) ==
  /\ phase[id] = "new"
  /\ \A j \in EgressIds : j < id => phase[j] # "new"
  /\ IF CannotDeliver(target)
     THEN /\ phase' = [phase EXCEPT ![id] = "threw"]
          /\ egressOut' = [EgressOutBase EXCEPT !.op = "deliver", !.id = id,
                             !.result = "threw", !.error = target,
                             !.target = target]
          /\ UNCHANGED <<pq, failedEvents, receipts, circuits, cbVars>>
     ELSE /\ GateVerdict = "admitted" => inFlight < MaxInFlight
          /\ circuits' = TRUE
          /\ executeGate
          /\ IF GateVerdict = "admitted"
             THEN /\ phase' = [phase EXCEPT ![id] = "sending"]
                  /\ receipts' = trackSent(receipts, id)
                  /\ egressOut' = [EgressOutBase EXCEPT !.op = "deliver", !.id = id,
                                     !.result = "pending", !.io = TRUE,
                                     !.target = target]
                  /\ UNCHANGED <<pq, failedEvents>>
             ELSE /\ phase' = [phase EXCEPT ![id] = "queued"]
                  /\ failedEvents' = [failedEvents EXCEPT ![id] = @ + 1]
                  /\ receipts' = markFailed(trackSent(receipts, id), id)
                  /\ pq' = PqEnqueue(pq, id)
                  /\ egressOut' = [EgressOutBase EXCEPT !.op = "deliver", !.id = id,
                                     !.result = "queued", !.error = GateVerdict,
                                     !.target = target]
  /\ UNCHANGED <<attempt, dlq, refusals, peerUp, stopped, skillVars, nodeVars,
                 workerVars, pairVars>>

\* retryWithBackoff going round once more after attempt maxRetries.
MayRetryOnceMore(a) == a <= sdkMaxRetries

\* retryWithBackoff: after a failed attempt, `if (attempt === maxRetries)
\* break`, else sleep and invoke fn again.
MayRetry(a) == a < sdkMaxRetries

\* One _rawSend settles: a 2xx resolves the call (_onSuccess, markDelivered);
\* anything else is retried by retryWithBackoff until attempt = maxRetries,
\* then rejects it (_onFailure, markFailed, queue.enqueue, {status: 'queued'}).
RawSendSettles(id, outcome) ==
  /\ phase[id] = "sending"
  /\ outcome \in Outcomes
  /\ refusals' = IF outcome = "refused"
                 THEN (IF refusals < failureThreshold THEN refusals + 1 ELSE refusals)
                 ELSE 0
  /\ IF outcome = "200"
     THEN /\ onSuccessUpdate
          /\ phase' = [phase EXCEPT ![id] = "delivered"]
          /\ receipts' = markDelivered(receipts, id)
          /\ egressOut' = [EgressOutBase EXCEPT !.op = "settle", !.id = id,
                             !.result = "ok", !.attemptNo = attempt[id]]
          /\ UNCHANGED <<attempt, pq, failedEvents>>
     ELSE IF MayRetry(attempt[id])
     THEN /\ attempt' = [attempt EXCEPT ![id] = @ + 1]
          /\ egressOut' = [EgressOutBase EXCEPT !.op = "settle", !.id = id,
                             !.result = "pending", !.error = outcome, !.io = TRUE,
                             !.attemptNo = attempt[id], !.slept = TRUE]
          /\ UNCHANGED <<phase, pq, failedEvents, receipts, cbVars>>
     ELSE /\ onFailureUpdate
          /\ phase' = [phase EXCEPT ![id] = "queued"]
          /\ failedEvents' = [failedEvents EXCEPT ![id] = @ + 1]
          /\ receipts' = markFailed(receipts, id)
          /\ pq' = PqEnqueue(pq, id)
          /\ egressOut' = [EgressOutBase EXCEPT !.op = "settle", !.id = id,
                             !.result = "queued", !.error = outcome,
                             !.attemptNo = attempt[id]]
          /\ UNCHANGED attempt
  /\ UNCHANGED <<dlq, peerUp, circuits, stopped, skillVars, nodeVars, workerVars,
                 pairVars>>

\* _handleRequest's branch for an envelope of type 'receipt' that passed the
\* filters: payload.status 'delivered' or 'read' for payload.messageId.
ReceiptArrives(id, status) ==
  /\ receipts' = IF status = "delivered" THEN markDelivered(receipts, id)
                 ELSE IF status = "read" THEN markRead(receipts, id)
                 ELSE receipts
  /\ egressOut' = [EgressOutBase EXCEPT !.op = "receipt", !.id = id,
                     !.status = status]
  /\ UNCHANGED <<phase, attempt, pq, dlq, failedEvents, refusals, peerUp, circuits,
                 stopped, cbVars, skillVars, nodeVars, workerVars, pairVars>>

receipt ==
  \E id \in EgressIds, status \in {"delivered", "read", "sent"} :
    /\ phase[id] \in {"sending", "delivered", "queued"}
    /\ ReceiptArrives(id, status)

send == \E id \in EgressIds, target \in Targets : DeliverBegin(id, target)

_rawSend == \E id \in EgressIds, outcome \in Outcomes : RawSendSettles(id, outcome)

\* The peer's server starts or stops.
PeerFlip ==
  /\ peerUp' = ~peerUp
  /\ egressOut' = [EgressOutBase EXCEPT !.op = "peer"]
  /\ UNCHANGED <<phase, attempt, pq, dlq, failedEvents, refusals, receipts,
                 circuits, stopped, cbVars, skillVars, nodeVars, workerVars, pairVars>>

\* stop(): deregisters, closes the HTTP server, resolves.
stop ==
  /\ ~stopped
  /\ stopped' = TRUE
  /\ egressOut' = [EgressOutBase EXCEPT !.op = "stop"]
  /\ UNCHANGED <<phase, attempt, pq, dlq, failedEvents, refusals, peerUp, receipts,
                 circuits, cbVars, skillVars, nodeVars, workerVars, pairVars>>

\* The application calls send()/request() while the node runs.
sendWhileRunning == ~stopped /\ send

\* Time passes at the node.
EgressTick ==
  /\ cbNow < MaxCbNow
  /\ cbNow' = cbNow + 1
  /\ cbOut' = CbOut("tick", "none", FALSE)
  /\ egressOut' = [EgressOutBase EXCEPT !.op = "tick"]
  /\ UNCHANGED <<cbState, failures, halfOpenAttempts, lastFailureTime, inFlight,
                 openedAt, phase, attempt, pq, dlq, failedEvents, refusals, peerUp,
                 receipts, circuits, stopped, skillVars, nodeVars, workerVars,
                 pairVars>>

EgressInit ==
  /\ phase = [i \in EgressIds |-> "new"]
  /\ attempt = [i \in EgressIds |-> 0]
  /\ pq = [i \in EgressIds |-> NoQueueEntry]
  /\ dlq = {}
  /\ failedEvents = [i \in EgressIds |-> 0]
  /\ refusals = 0
  /\ peerUp = FALSE
  /\ receipts = [i \in EgressIds |-> NoReceipt]
  /\ circuits = FALSE
  /\ stopped = FALSE
  /\ egressOut = EgressOutBase

(***************************************************************************)
(* Part V - the outbox worker: queueAndSend, attemptDelivery with its      *)
(* retry timer, resumeQueue (src/unnamed/part_011), for one queue entry    *)
(* in an outbox directory shared by the processes that load the module     *)
(***************************************************************************)
MaxTimers == 2         \* pending timers for the entry at a time
MaxRunning == 2        \* attemptDelivery calls awaiting sendFn at a time
MaxStarted == 4        \* delivery attempts begun in one behaviour

NoOutboxEntry == [exists |-> FALSE, attempt |-> 0, status |-> "none", endpoint |-> "none"]

\* The endpoints of the recipients of one group send, in the order of the loop.
GroupEndpoints == <<"e1", "e2">>

\* enqueue(endpoint, envelope): outbox/<envelope.id>.json written whole.
outboxEnqueue(endpoint) ==
  [exists |-> TRUE, attempt |-> 0, status |-> "queued", endpoint |-> endpoint]

\* loadEntry and the guard of attemptDelivery.
Deliverable == entry.exists /\ entry.status \notin {"delivered", "failed"}

\* attemptDelivery up to its await: entry.attempt += 1 in memory only.
attemptDeliveryBegin(e) ==
  /\ running' = Append(running, e.attempt + 1)
  /\ started' = started + 1

\* queueAndSend: enqueue writes the entry, attemptDelivery starts at once.
queueAndSend ==
  /\ ~entry.exists /\ started = 0
  /\ entry' = outboxEnqueue(GroupEndpoints[1])
  /\ attemptDeliveryBegin(entry')
  /\ workerOut' = "queueAndSend"
  /\ UNCHANGED <<timers, skillVars, nodeVars, cbVars, egressVars, pairVars>>

\* sendToMultiple going on to the next recipient once sendMessage for the
\* first has returned: the copy {...envelope, to} keeps envelope.id, the
\* direct send fails, queueAndSend enqueues the copy and attempts it.
sendToMultipleNext ==
  /\ started > 0 /\ started < MaxStarted
  /\ running = <<>>
  /\ entry.endpoint # GroupEndpoints[2]
  /\ entry' = outboxEnqueue(GroupEndpoints[2])
  /\ attemptDeliveryBegin(entry')
  /\ workerOut' = "sendToMultiple"
  /\ UNCHANGED <<timers, skillVars, nodeVars, cbVars, egressVars, pairVars>>

\* A timer set by attemptDelivery or by resumeQueue fires.
timerFires ==
  /\ timers > 0
  /\ timers' = timers - 1
  /\ IF Deliverable /\ Len(running) < MaxRunning /\ started < MaxStarted
     THEN attemptDeliveryBegin(entry)
     ELSE /\ ~Deliverable
          /\ UNCHANGED <<running, started>>
  /\ workerOut' = "timer"
  /\ UNCHANGED <<entry, skillVars, nodeVars, cbVars, egressVars, pairVars>>

Remove(seq, k) == [i \in 1..(Len(seq) - 1) |-> IF i < k THEN seq[i] ELSE seq[i + 1]]

\* sendFn resolved: updateEntry (a no-op when the file is gone), removeEntry,
\* which also clears the timer retryTimers holds for the entry, if any.
sendFnResolves(k) ==
  /\ k \in 1..Len(running)
  /\ running' = Remove(running, k)
  /\ entry' = NoOutboxEntry
  /\ timers' \in {timers} \cup (IF timers > 0 THEN {timers - 1} ELSE {})
  /\ workerOut' = "delivered"
  /\ UNCHANGED <<started, skillVars, nodeVars, cbVars, egressVars, pairVars>>

\* sendFn rejected: updateEntry writes the in-memory entry over the file (when
\* the file exists); attempt >= maxRetries marks it failed and calls
\* onFailure, otherwise the next retry is scheduled.
sendFnRejects(k) ==
  /\ k \in 1..Len(running)
  /\ running' = Remove(running, k)
  /\ IF running[k] >= maxRetries
     THEN /\ entry' = IF entry.exists
                      THEN [entry EXCEPT !.attempt = running[k], !.status = "failed"]
                      ELSE entry
          /\ workerOut' = "exhausted"
          /\ UNCHANGED timers
     ELSE /\ timers < MaxTimers
          /\ entry' = IF entry.exists
                      THEN [entry EXCEPT !.attempt = running[k], !.status = "retrying"]
                      ELSE entry
          /\ timers' = timers + 1
          /\ workerOut' = "retry-scheduled"
  /\ UNCHANGED <<started, skillVars, nodeVars, cbVars, egressVars, pairVars>>

sendFnSettles == \E k \in 1..MaxRunning : sendFnResolves(k) \/ sendFnRejects(k)

\* resumeQueue, called by startServer when a process starts on this outbox:
\* one timer for the entry when its status is queued or retrying.
resumeQueue ==
  /\ entry.exists /\ entry.status \in {"queued", "retrying"}
  /\ timers < MaxTimers
  /\ timers' = timers + 1
  /\ workerOut' = "resumeQueue"
  /\ UNCHANGED <<entry, running, started, skillVars, nodeVars, cbVars, egressVars, pairVars>>

\* The processes are killed: timers and calls in flight are gone, the outbox
\* directory stays.
processKilled ==
  /\ timers' = 0
  /\ running' = <<>>
  /\ workerOut' = "killed"
  /\ UNCHANGED <<entry, started, skillVars, nodeVars, cbVars, egressVars, pairVars>>

WorkerInit ==
  /\ entry = NoOutboxEntry
  /\ timers = 0
  /\ running = <<>>
  /\ started = 0
  /\ workerOut = "init"

(***************************************************************************)
(* Part VI - two skill servers, A asking B for a meeting: requestMeeting   *)
(* (src/src/ai2ai-client.js) at A, processMessage (src/src/ai2ai-server.js)*)
(* at both, handleHumanReply (src/unnamed/part_010) at B, each node with   *)
(* its own conversation store                                              *)
(***************************************************************************)
Nodes == {"A", "B"}
MeetingIntent == <<"schedule", "meeting">>
PairTypes == {"request", "response", "confirm", "reject"}
PairOutBase == [op |-> "init", node |-> "none", type |-> "none", from |-> "none"]

TheConv == CHOOSE c \in ConvIds : TRUE

Peer(n) == IF n = "A" THEN "B" ELSE "A"

\* requestMeeting at A: createConversation in A's store, then sendMessage.
requestMeetingAB ==
  /\ "request" \notin sent
  /\ ~stores["A"][TheConv].exists
  /\ stores' = [stores EXCEPT !["A"] = createConversation(@, TheConv, "A")]
  /\ wire' = wire \cup {[type |-> "request", to |-> "B"]}
  /\ sent' = sent \cup {"request"}
  /\ pairOut' = [PairOutBase EXCEPT !.op = "send", !.node = "A", !.type = "request"]
  /\ UNCHANGED <<approval, skillVars, nodeVars, cbVars, egressVars, workerVars>>

\* processMessage at node n for an envelope of the conversation: step 6 (create
\* or update the metadata), then handleRequest with approval needed, or
\* handleReply.
StoreAfterReceive(cs, from, type) ==
  LET tracked == IF ~cs[TheConv].exists
                 THEN createConversation(cs, TheConv, from)
                 ELSE updateConversation(cs, TheConv, [state |-> "keep"])
  IN CASE type = "request" -> transitionState(tracked, TheConv, "negotiating")
       [] type = "confirm" -> transitionState(tracked, TheConv, "confirmed")
       [] type = "reject" -> transitionState(tracked, TheConv, "rejected")
       [] OTHER -> tracked

nodeReceives(n, type) ==
  /\ [type |-> type, to |-> n] \in wire
  /\ wire' = wire \ {[type |-> type, to |-> n]}
  /\ stores' = [stores EXCEPT ![n] = StoreAfterReceive(@, Peer(n), type)]
  /\ approval' = IF type = "request" /\ HandlerNeedsApproval(MeetingIntent, FALSE)
                 THEN "unresolved" ELSE approval
  /\ pairOut' = [op |-> "receive", node |-> n, type |-> type, from |-> Peer(n)]
  /\ UNCHANGED <<sent, skillVars, nodeVars, cbVars, egressVars, workerVars>>

\* An agent that takes no part in the conversation.
Outsider == "M"

\* The agents of the conversation as node n's metadata lists them:
\* participants = [initiator, recipient], the recipient being the node itself
\* unless it is the initiator.
Participants(n) ==
  LET c == stores[n][TheConv]
  IN {c.initiator, IF c.initiator = n THEN Peer(n) ELSE n}

\* processMessage at node n for a reply envelope that names the conversation
\* and comes from the outsider.
outsiderReplies(n, type) ==
  /\ stores' = [stores EXCEPT ![n] = StoreAfterReceive(@, Outsider, type)]
  /\ pairOut' = [op |-> "receive", node |-> n, type |-> type, from |-> Outsider]
  /\ UNCHANGED <<approval, wire, sent, skillVars, nodeVars, cbVars, egressVars,
                 workerVars>>

outsider ==
  \E n \in Nodes, type \in {"response", "confirm", "reject"} : outsiderReplies(n, type)

deliver == \E n \in Nodes, type \in PairTypes : nodeReceives(n, type)

\* handleHumanReply at B for the pending request: resolvePendingApproval, then
\* the reject envelope, or the envelope formatResponse builds, goes to A.
operatorReplies(reply) ==
  /\ approval = "unresolved"
  /\ approval' = IF IsApproved(reply) THEN "approved" ELSE "declined"
  /\ LET type == IF IsApproved(reply)
                 THEN FormatResponse(MeetingIntent, reply, FALSE) ELSE "reject"
     IN /\ wire' = wire \cup {[type |-> type, to |-> "A"]}
        /\ sent' = sent \cup {type}
        /\ pairOut' = [PairOutBase EXCEPT !.op = "reply", !.node = "B", !.type = type]
  /\ UNCHANGED <<stores, skillVars, nodeVars, cbVars, egressVars, workerVars>>

operator == \E reply \in Replies : operatorReplies(reply)

\* A answers B's response with a confirm or a reject envelope: createEnvelope
\* and sendMessage.
answerResponse(type) ==
  /\ "response" \in sent
  /\ [type |-> "response", to |-> "A"] \notin wire
  /\ sent \cap {"confirm", "reject"} = {}
  /\ wire' = wire \cup {[type |-> type, to |-> "B"]}
  /\ sent' = sent \cup {type}
  /\ pairOut' = [PairOutBase EXCEPT !.op = "send", !.node = "A", !.type = type]
  /\ UNCHANGED <<stores, approval, skillVars, nodeVars, cbVars, egressVars,
                 workerVars>>

answer == \E type \in {"confirm", "reject"} : answerResponse(type)

\* Days pass at both nodes.
PairTick ==
  /\ now + TickStep <= MaxNow
  /\ now' = now + TickStep
  /\ pairOut' = [PairOutBase EXCEPT !.op = "tick"]
  /\ UNCHANGED <<contacts, rateLimiter, convs, pending, outbox, out, stores,
                 approval, wire, sent, nodeVars, cbVars, egressVars, workerVars>>

PairInit ==
  /\ stores = [n \in Nodes |-> [c \in ConvIds |-> NoConv]]
  /\ approval = "none"
  /\ wire = {}
  /\ sent = {}
  /\ pairOut = PairOutBase

(***************************************************************************)
(* Specifications                                                          *)
(***************************************************************************)
Init == SkillInit /\ NodeInit /\ CbInit /\ EgressInit /\ WorkerInit /\ PairInit

\* Inbound routing: every envelope shape, the trust store under the operator.
Next ==
  \/ Receive
  \/ TrustOps
  \/ WindowPasses
Spec == Init /\ [][Next]_vars

\* Approvals: requests arrive, the operator answers them, the replies go out,
\* failed sends are retried, time passes and maintenance runs.
NextApproval ==
  \/ ReceiveRequest
  \/ Contacts
  \/ HumanReply
  \/ Retry
  \/ runMaintenance
  \/ WindowPasses
  \/ Tick
SpecApproval == Init /\ [][NextApproval]_vars

\* The outbound path under blocking: requests go out, failed sends are queued
\* and retried, the operator blocks agents, envelopes keep arriving.
NextOutbound ==
  \/ ReceivePlain
  \/ ContactOps
  \/ SendRequest
  \/ Retry
  \/ WindowPasses
SpecOutbound == Init /\ [][NextOutbound]_vars

\* The conversation store with its exported API called directly.
NextApi ==
  \/ ReceivePlain
  \/ runMaintenance
  \/ WindowPasses
  \/ Tick
  \/ TransitionStateCall
  \/ UpdateConversationCall
SpecApi == Init /\ [][NextApi]_vars

\* The skill server receiving while days pass and maintenance runs.
NextSweep ==
  \/ ReceivePlain
  \/ runMaintenance
  \/ WindowPasses
  \/ Tick
SpecSweep == Init /\ [][NextSweep]_vars

\* Two skill servers and the meeting conversation between them.
NextPair ==
  \/ requestMeetingAB
  \/ deliver
  \/ operator
  \/ answer
  \/ PairTick
SpecPair == Init /\ [][NextPair]_vars

\* The SDK node's ingress: POSTs, the blocklist, the clock.
NextNode ==
  \/ Post
  \/ BlocklistOps
  \/ NodeTick
SpecNode == Init /\ [][NextNode]_vars

\* One circuit breaker with concurrent callers.
NextCB ==
  \/ execute
  \/ _onSuccess
  \/ _onFailure
  \/ reset
  \/ CbTick
SpecCB == Init /\ [][NextCB]_vars

\* The SDK node sending to one endpoint that comes and goes.
NextEgress ==
  \/ send
  \/ _rawSend
  \/ PeerFlip
  \/ EgressTick
SpecEgress == Init /\ [][NextEgress]_vars

\* The same under the scheduling the runtime guarantees: a request that is in
\* flight settles (response, error or the request timeout), and time passes.
SpecEgressLive == SpecEgress /\ WF_vars(_rawSend) /\ WF_vars(EgressTick)

\* The SDK node sending until the application stops it.
NextStop ==
  \/ sendWhileRunning
  \/ _rawSend
  \/ PeerFlip
  \/ stop
  \/ EgressTick
SpecStop == Init /\ [][NextStop]_vars

\* The outbox worker with a group send to two recipients.
NextGroup ==
  \/ queueAndSend
  \/ sendToMultipleNext
  \/ timerFires
  \/ sendFnSettles
  \/ resumeQueue
  \/ processKilled
SpecGroup == Init /\ [][NextGroup]_vars

\* The two skill servers reachable by a third agent.
NextPairOpen ==
  \/ requestMeetingAB
  \/ deliver
  \/ operator
  \/ answer
  \/ outsider
  \/ PairTick
SpecPairOpen == Init /\ [][NextPairOpen]_vars

\* The rate limiter called for several keys while time passes.
NextRate ==
  \/ allowCalls
  \/ NodeTick
SpecRate == Init /\ [][NextRate]_vars

\* The SDK node's ingress receiving requests of every age.
NextFresh ==
  \/ PostStamped
  \/ NodeTick
SpecFresh == Init /\ [][NextFresh]_vars

\* The SDK node sending while receipt envelopes for its messages come in.
NextReceipts ==
  \/ send
  \/ _rawSend
  \/ PeerFlip
  \/ receipt
SpecReceipts == Init /\ [][NextReceipts]_vars

\* One outbox entry under its timers, process starts and kills.
NextWorker ==
  \/ queueAndSend
  \/ timerFires
  \/ sendFnSettles
  \/ resumeQueue
  \/ processKilled
SpecWorker == Init /\ [][NextWorker]_vars

(***************************************************************************)
(* Properties of the skill server                                          *)
(***************************************************************************)
\* The envelope of the last receive step went past the block, rate-limit,
\* signature and decryption checks of processMessage.
Processed ==
  /\ out.op = "receive"
  /\ out.status # "rejected"
  /\ out.reason # "decryption_failed"

\* C1: once a conversation's state is confirmed, rejected or expired, no step
\* (transitionState, updateConversation, an inbound envelope, maintenance)
\* changes it.
C1_TerminalStateFinal ==
  [][\A c \in ConvIds :
       convs[c].state \in TerminalStates => convs'[c].state = convs[c].state]_vars

C3_ResponseOnlyAfterApproval ==
  [][out'.sentType \in {"response", "confirm"} =>
       \/ /\ out'.op = "reply"
          /\ pending[out'.re].exists /\ ~pending[out'.re].resolved
          /\ pending'[out'.re].resolved /\ pending'[out'.re].approved
          /\ pending'[out'.re].humanReply \in Replies \ DeclineWords
       \/ /\ out'.op = "retry"
          /\ \E q \in QueueIds : /\ outbox[q].exists /\ outbox[q].timer
                                 /\ outbox[q].type = out'.sentType
                                 /\ outbox[q].to = out'.sentTo]_vars

C3_Witness ==
  /\ out.op = "reply" /\ out.sentType = "confirm" /\ out.sentTo \in Agents
  /\ pending[out.re].resolved /\ pending[out.re].approved

C5_SignatureRequired ==
  (out.op = "receive" /\ out.sigCheck \in {"nosig", "failed"}) =>
     (out.status = "rejected" /\ out.reason = "invalid_signature")

\* C9: nothing goes on the wire to a blocked agent and nothing from a blocked
\* agent is accepted.
C9_BlockedNoTraffic ==
  /\ (out.sentTo \in Agents => ~isBlocked(out.sentTo))
  /\ ((out.op = "receive" /\ isBlocked(out.from)) => out.status = "rejected")

(***************************************************************************)
(* Properties of the SDK node's ingress                                    *)
(***************************************************************************)
\* The filters _handleRequest runs before the nonce check, and before dedup.
EarlyRejections == {"invalid_envelope", "blocked", "rate_limited", "message_expired"}
PreDedupRejections == EarlyRejections \cup {"replay_detected"}

\* C6 as stated: a POST of an id whose event was emitted before emits nothing
\* and is answered duplicate.
C6_EveryRepeatAnsweredDuplicate ==
  (resp.op = "post" /\ resp.idAge # NotSeen) =>
     (~resp.emitted /\ resp.status = "duplicate")

\* C6 amended: a POST of an id whose event was emitted no longer than the dedup
\* ttl ago emits nothing, and is answered duplicate unless one of the filters
\* that run before dedup rejects it.
C6_RepeatWithinTtl ==
  (resp.op = "post" /\ resp.idAge # NotSeen /\ resp.idAge <= cacheTtl) =>
     /\ ~resp.emitted
     /\ resp.status \notin PreDedupRejections =>
          (resp.status = "duplicate" /\ resp.code = 200)

C6_Witness ==
  /\ resp.op = "post" /\ resp.idAge # NotSeen /\ resp.idAge <= cacheTtl
  /\ resp.status = "duplicate"

\* C7 as stated: an envelope carrying a nonce that an accepted envelope carried
\* before is rejected with 400 replay_detected and emits nothing.
C7_EveryReuseRejectedAsReplay ==
  (resp.op = "post" /\ resp.nonceAge # NotSeen) =>
     (~resp.emitted /\ resp.status = "replay_detected" /\ resp.code = 400)

\* C7 amended: an envelope carrying a nonce that passed the nonce check no
\* longer than maxAge ago is not accepted and emits nothing, and is rejected
\* with 400 replay_detected unless an earlier filter rejects it.
C7_ReuseWithinMaxAge ==
  (resp.op = "post" /\ resp.nonceAge # NotSeen /\ resp.nonceAge <= cacheTtl) =>
     /\ ~resp.emitted
     /\ resp.status \notin {"ok", "duplicate"}
     /\ resp.status \notin EarlyRejections =>
          (resp.status = "replay_detected" /\ resp.code = 400)

C7_Witness ==
  /\ resp.op = "post" /\ resp.nonceAge # NotSeen /\ resp.nonceAge <= cacheTtl
  /\ resp.status = "replay_detected"

\* C8: an envelope whose signature does not verify is never accepted, and the
\* dedup cache is neither consulted nor updated for it.
C8_DedupAfterVerify ==
  (resp.op = "post" /\ ~resp.sigOk) =>
     (~resp.dedupTouched /\ resp.status # "ok" /\ ~resp.emitted)

(***************************************************************************)
(* Properties of the circuit breaker                                       *)
(***************************************************************************)
\* C10: the failure that brings a closed breaker's consecutive failures to
\* failureThreshold leaves it open, a closed breaker never holds that many
\* failures, and execute() on an open breaker before resetTimeout has elapsed
\* throws "Circuit breaker is open" without calling fn.
C10_OpensAtThreshold ==
  /\ (cbOut.op = "failure" /\ cbOut.stateBefore = "closed"
        /\ cbOut.failuresBefore + 1 >= failureThreshold) => cbState = "open"
  /\ cbState = "closed" => failures < failureThreshold
  /\ (cbOut.op = "execute" /\ cbOut.stateBefore = "open"
        /\ cbOut.elapsed < resetTimeout) =>
       (cbOut.result = "open" /\ ~cbOut.invoked /\ cbState = "open")

C10_Witness ==
  /\ cbOut.op = "execute" /\ cbOut.stateBefore = "open"
  /\ cbOut.failuresBefore = failureThreshold
  /\ cbOut.elapsed < resetTimeout
  /\ cbOut.result = "open"

\* C12: from the moment the breaker becomes open until resetTimeout has
\* elapsed, execute() admits no call to the wrapped function, whatever calls
\* admitted earlier complete in the meantime.
C12_NoCallWhileOpen ==
  (cbOut.op = "execute" /\ cbOut.invoked) =>
     (openedAt = NeverOpened \/ cbNow - openedAt >= resetTimeout)

\* C13: in one half-open period execute() admits at most halfOpenMax calls:
\* halfOpenAttempts, which counts them, never exceeds halfOpenMax, and a caller
\* that finds the breaker half-open with halfOpenMax calls admitted is turned
\* away without fn being called.
C13_HalfOpenAdmitsAtMostMax ==
  /\ cbState = "half-open" => halfOpenAttempts <= halfOpenMax
  /\ (cbOut.op = "execute" /\ cbOut.stateBefore = "half-open"
        /\ cbOut.attemptsBefore >= halfOpenMax) =>
       (cbOut.result = "half-open-max" /\ ~cbOut.invoked /\ inFlight <= MaxInFlight)
  /\ (cbOut.op = "execute" /\ cbOut.invoked /\ cbState = "half-open") =>
       halfOpenAttempts = (IF cbOut.stateBefore = "half-open"
                           THEN cbOut.attemptsBefore ELSE 0) + 1

C13_Witness ==
  /\ cbOut.op = "execute" /\ cbOut.stateBefore = "half-open"
  /\ cbOut.attemptsBefore = halfOpenMax
  /\ cbOut.result = "half-open-max"
  /\ inFlight > 0

\* C14: execute() on a breaker that opened at least resetTimeout ago is
\* admitted as a half-open probe; a success that finds the breaker half-open
\* closes it with the failure counter at 0; a failure that finds it half-open
\* opens it again, with the open period starting anew.
C14_HalfOpenProbe ==
  /\ (cbOut.op = "execute" /\ cbOut.stateBefore = "open"
        /\ cbNow - openedAt >= resetTimeout) =>
       (cbOut.invoked /\ cbState = "half-open")
  /\ (cbOut.op = "success" /\ cbOut.stateBefore = "half-open") =>
       (cbState = "closed" /\ failures = 0)
  /\ (cbOut.op = "failure" /\ cbOut.stateBefore = "half-open") =>
       (cbState = "open" /\ openedAt = cbNow)

(***************************************************************************)
(* Properties of the SDK node's egress                                     *)
(***************************************************************************)
\* C11 as stated: a send()/request() made after failureThreshold consecutive
\* connection refusals from the endpoint, within resetTimeout of the last
\* failure, is answered "Circuit breaker is open" and attempts no network I/O.
C11_OpenAfterRefusals ==
  (egressOut.op = "deliver" /\ egressOut.error \notin Targets
     /\ refusals >= failureThreshold /\ cbOut.elapsed < resetTimeout) =>
       (egressOut.error = "open" /\ ~egressOut.io)

\* C11 amended: a send()/request() made after failureThreshold consecutive
\* failed send()/request() calls to the endpoint (each one all attempts of
\* retryWithBackoff failed, none succeeding in between), within resetTimeout of
\* the last failure, attempts no network I/O, queues the envelope and returns
\* {status: 'queued'} with error "Circuit breaker is open".
C11_OpenAfterFailedSends ==
  (egressOut.op = "deliver" /\ egressOut.error \notin Targets
     /\ cbOut.failuresBefore >= failureThreshold /\ cbOut.elapsed < resetTimeout) =>
       /\ egressOut.error = "open" /\ egressOut.result = "queued"
       /\ ~egressOut.io
       /\ phase[egressOut.id] = "queued"

C11_Witness ==
  /\ egressOut.op = "deliver" /\ egressOut.error = "open"
  /\ cbOut.failuresBefore = failureThreshold
  /\ refusals = failureThreshold
  /\ ~egressOut.io /\ egressOut.result = "queued"

\* C15: a send()/request() to a resolvable, unblocked target that fails
\* terminally (the breaker's gate throws, or the last attempt of
\* retryWithBackoff fails) returns {status: 'queued', id}, and when it returns
\* the queue directory holds a pending entry for that id with no attempts
\* recorded.
C15_TerminalFailureQueued ==
  /\ (egressOut.op = "deliver" /\ egressOut.error \in {"open", "half-open-max"}) =>
        egressOut.result = "queued"
  /\ (egressOut.op = "settle" /\ egressOut.error # "none"
        /\ egressOut.attemptNo = sdkMaxRetries) => egressOut.result = "queued"
  /\ egressOut.result = "queued" =>
        /\ phase[egressOut.id] = "queued"
        /\ pq[egressOut.id].exists
        /\ pq[egressOut.id].status = "pending"
        /\ pq[egressOut.id].attempts = 0
        /\ pq[egressOut.id].expiresAt = cbNow + messageTTL

C15_Witness ==
  /\ egressOut.op = "settle" /\ egressOut.error = "refused"
  /\ egressOut.attemptNo = sdkMaxRetries
  /\ egressOut.result = "queued"
  /\ pq[egressOut.id].exists

\* C20: when the peer answers an attempt with 400, 403, 413 or 429, the sender
\* makes no further attempt for that envelope and does not enqueue it.
C20_RejectionNotRetried ==
  (egressOut.op = "settle" /\ egressOut.error \in Rejections) =>
     (~egressOut.io /\ ~pq[egressOut.id].exists)

\* C16: if the peer is eventually up for good, every envelope that was queued
\* because the peer could not be reached (connection refused or timed out) is
\* eventually delivered to it.
C16_QueuedEventuallyDelivered ==
  (<>[]peerUp) =>
     \A i \in EgressIds :
        []((egressOut.result = "queued" /\ egressOut.id = i
              /\ egressOut.error \in {"refused", "timeout"})
            => <>(phase[i] = "delivered"))

\* C17: if the peer stays down, every queued envelope eventually has left the
\* queue for exactly one dead-letter entry, with exactly one 'failed' event
\* emitted for it.
C17_ExhaustedToDeadLetter ==
  (<>[]~peerUp) =>
     \A i \in EgressIds :
        [](pq[i].exists => <>(i \in dlq /\ ~pq[i].exists /\ failedEvents[i] = 1))

\* C22: after A's request, B's pending_approval, the approval by B's operator,
\* B's response and A's confirm have all been processed, the conversation is
\* in state confirmed in the store of A and in the store of B.
C22_BothConfirmed ==
  (pairOut = [op |-> "receive", node |-> "B", type |-> "confirm", from |-> "A"]
     /\ approval = "approved") =>
     \A n \in Nodes : stores[n][TheConv].state = "confirmed"

\* C23: a maintenance sweep marks a conversation that is in no terminal state
\* expired exactly when more than conversationExpiryDays have passed since its
\* updatedAt.
C23_ExpiresAfterInactivity ==
  [][out'.op = "maintenance" =>
       \A c \in ConvIds :
          (convs[c].exists /\ convs[c].state \notin TerminalStates) =>
             (convs'[c].state = "expired"
                <=> now - convs[c].updatedAt > conversationExpiryDays)]_vars

\* C24: a maintenance sweep resolves as rejected every unresolved approval
\* created more than 24 hours before it, deletes every resolved approval that
\* was resolved more than 7 days before it, and leaves every other approval as
\* it was.
C24_SweepOfApprovals ==
  [][out'.op = "maintenance" =>
       \A id \in EnvIds :
          IF pending[id].exists /\ ~pending[id].resolved
                /\ now - pending[id].createdAt > approvalTimeoutDays
          THEN pending'[id] = [pending[id] EXCEPT !.resolved = TRUE,
                                                  !.approved = FALSE,
                                                  !.humanReply = AutoRejectReply,
                                                  !.resolvedAt = now]
          ELSE IF pending[id].exists /\ pending[id].resolved
                    /\ now - pending[id].resolvedAt > resolvedRetentionDays
          THEN ~pending'[id].exists
          ELSE pending'[id] = pending[id]]_vars

C24_Witness ==
  /\ out.op = "maintenance"
  /\ \E id \in EnvIds :
        /\ pending[id].exists /\ pending[id].resolved /\ ~pending[id].approved
        /\ pending[id].humanReply = AutoRejectReply
        /\ pending[id].resolvedAt = now

\* C25: when a request that requires approval has been processed, the pending
\* directory holds exactly one record for it, the file named after the
\* envelope's id, whether that envelope was received for the first time or
\* again.
RecordsFor(id, from, intent) ==
  { i \in EnvIds : /\ pending[i].exists /\ i = id /\ pending[i].from = from
                   /\ pending[i].intent = intent /\ pending[i].handler = "intent" }

Notified(c) ==
  \E id \in EnvIds :
     /\ pending'[id].exists /\ ~pending'[id].resolved /\ pending'[id].conv = c
     /\ pending'[id] # pending[id]

C26_OneNotificationPerOutcome ==
  [][\A c \in ConvIds :
       /\ (convs[c].state \notin TerminalStates /\ convs'[c].state \in TerminalStates)
             => Notified(c)
       /\ (out'.op = "receive" /\ out'.conv = c /\ out'.type \in {"confirm", "reject"}
             /\ convs[c].state \in TerminalStates) => ~Notified(c)]_vars

\* C28: every envelope sendMessage hands to rawSend carries a signature that
\* was computed over the payload the envelope carries, the ciphertext when the
\* payload was encrypted.
C28_SignatureOverCarriedPayload ==
  (out.op \in {"send", "reply"} /\ out.sentType # "none") =>
     out.signedOver = out.carried

\* C29: an inbound envelope whose encrypted payload cannot be decrypted is
\* answered decryption_failed, is not appended to the conversation log, and
\* leaves the conversation store and the pending approvals as they were.
C29_UndecryptableNoEffect ==
  [][(out'.op = "receive" /\ out'.enc \in {"fail", "keyerror"}) =>
       /\ out'.reason = "decryption_failed"
       /\ ~out'.logged
       /\ UNCHANGED <<convs, pending>>]_vars

\* C30: an inbound envelope is accepted only if its timestamp lies in
\* [now - messageTTL, now] and, when it carries expiresAt, now < expiresAt;
\* every other envelope that gets as far as the expiry check is answered
\* 400 message_expired.
InFreshWindow ==
  /\ resp.tsAge # NoTimestamp
  /\ 0 <= resp.tsAge /\ resp.tsAge <= messageTTL
  /\ resp.expiresIn # NoExpiresAt => resp.expiresIn > 0

C30_OnlyFreshAccepted ==
  (resp.op = "post" /\ ~InFreshWindow) =>
     /\ resp.status \notin {"ok", "duplicate", "replay_detected"}
     /\ ~resp.emitted

\* C31: for every key and every instant t, at most maxRequests calls of
\* allow(key) made in (t - windowMs, t] returned true; a call that returned
\* false consumed no quota; a call for one key changes nothing for another key.
RECURSIVE SumOver(_, _)
SumOver(f, S) ==
  IF S = {} THEN 0
  ELSE LET x == CHOOSE y \in S : TRUE IN f[x] + SumOver(f, S \ {x})

GrantedIn(g, key, t) ==
  SumOver(g[key], {u \in 0..MaxNodeNow : u > t - windowMs /\ u <= t})

TrustLevelOf(c) == IF c.trustLevel = "undefined" THEN "none" ELSE c.trustLevel

C32_TrustOnlyByOperator ==
  /\ \A a \in Agents : TrustLevelOf(getContact(a)) = "none"
  /\ [][\A a \in Agents :
          /\ TrustLevelOf(contacts'[a]) # TrustLevelOf(contacts[a]) =>
                \E level \in TRUST_LEVELS : setTrustLevel(a, level)
          /\ out'.op = "receive" =>
                /\ TrustLevelOf(contacts'[a]) = TrustLevelOf(contacts[a])
                /\ contacts'[a].blocked = contacts[a].blocked]_vars

C32_Witness ==
  /\ out.op = "receive" /\ out.type = "ping" /\ out.status = "ok"
  /\ getContact(out.from).trustLevel = "trusted"
  /\ getContact(out.from).publicKey # NoKey

\* C33: after stop() has returned the node starts no new delivery attempt,
\* and every queue entry that was on disk when stop() was called is still
\* there.
C33_QuietAfterStop ==
  [][stopped =>
       /\ ~egressOut'.io
       /\ \A id \in EgressIds : pq[id].exists => pq'[id].exists]_vars

\* C34: retryWithBackoff invokes fn for attempts 0..maxRetries only; a
\* successful invocation ends the call with no further invocation; a failed
\* invocation before attempt maxRetries is followed by a sleep and the next
\* invocation; the failure of attempt maxRetries ends the call with that
\* invocation's error, without a sleep.
C34_RetryWithBackoff ==
  [][egressOut'.op = "settle" =>
       LET id == egressOut'.id
       IN /\ attempt[id] <= sdkMaxRetries
          /\ egressOut'.attemptNo = attempt[id]
          /\ egressOut'.result = "ok" =>
                /\ ~egressOut'.io /\ ~egressOut'.slept
                /\ attempt'[id] = attempt[id]
                /\ phase'[id] = "delivered"
          /\ (egressOut'.result # "ok" /\ attempt[id] < sdkMaxRetries) =>
                /\ egressOut'.io /\ egressOut'.slept
                /\ attempt'[id] = attempt[id] + 1
                /\ phase'[id] = "sending"
          /\ (egressOut'.result # "ok" /\ attempt[id] = sdkMaxRetries) =>
                /\ ~egressOut'.io /\ ~egressOut'.slept
                /\ attempt'[id] = attempt[id]
                /\ egressOut'.error \in {"refused", "timeout", "500"} \cup Rejections
                /\ phase'[id] # "sending"]_vars

C34_Witness ==
  /\ egressOut.op = "settle" /\ egressOut.error = "timeout"
  /\ egressOut.attemptNo = sdkMaxRetries
  /\ ~egressOut.slept
  /\ phase[egressOut.id] = "queued"

\* C35: at all times the dedup cache holds at most maxSize envelope ids and
\* the nonce tracker at most maxSize nonces.
C35_CachesBounded ==
  /\ CacheSize(seen) <= maxSize
  /\ CacheSize(nonces) <= maxSize

\* C36: for an outbox entry sendFn is invoked at most maxRetries times in
\* total, and when the maxRetries-th attempt has failed the entry's status is
\* failed and no retry timer remains for it.
C36_AtMostMaxRetries ==
  /\ started <= maxRetries
  /\ workerOut = "exhausted" => (entry.status = "failed" /\ timers = 0)

\* C37: once a pending approval is resolved, its resolved, approved and
\* humanReply fields never change while the record exists: not by another
\* operator reply, not by a maintenance sweep, not by the envelope that
\* created it being delivered again.
C37_ResolvedIsFinal ==
  [][\A id \in EnvIds :
       (pending[id].exists /\ pending[id].resolved /\ pending'[id].exists) =>
          /\ pending'[id].resolved
          /\ pending'[id].approved = pending[id].approved
          /\ pending'[id].humanReply = pending[id].humanReply]_vars

\* C38: an envelope handed to enqueue stays in the queue with its own
\* endpoint and a non-decreasing attempt count until it is delivered or has
\* failed; enqueueing another envelope, the per-recipient copies of one group
\* send included, neither replaces nor resets an existing entry.
C38_EnqueueKeepsEntries ==
  [][(entry.exists /\ entry.status \notin {"delivered", "failed"}) =>
       /\ entry'.exists \/ workerOut' = "delivered"
       /\ entry'.exists =>
             /\ entry'.endpoint = entry.endpoint
             /\ entry'.attempt >= entry.attempt]_vars

\* C39: an inbound confirm or reject envelope changes the state of an
\* existing conversation only if its sender is the conversation's initiator,
\* its recipient or a listed participant.
C39_OnlyParticipantsChangeState ==
  [][(pairOut'.op = "receive" /\ pairOut'.type \in {"confirm", "reject"}) =>
       LET n == pairOut'.node
       IN (stores[n][TheConv].exists
             /\ stores'[n][TheConv].state # stores[n][TheConv].state) =>
            pairOut'.from \in Participants(n)]_vars

\* C40: once a public key is recorded for a contact, an inbound envelope
\* replaces or removes it only if the envelope's signature verified under the
\* key recorded when it arrived.
C40_KeyReplacedOnlyBySignedEnvelope ==
  [][\A a \in Agents :
       (out'.op = "receive" /\ contacts[a].publicKey # NoKey
          /\ contacts'[a].publicKey # contacts[a].publicKey) =>
             (out'.from = a /\ out'.sigCheck = "verified")]_vars

\* C21: a send()/request() whose target has no endpoint in the contact map
\* and none in the registry throws to the caller, and the queue directory, the
\* delivery tracker, the map of circuit breakers and the breaker itself are
\* what they were before the call.
C21_UnresolvableThrows ==
  [][(egressOut'.op = "deliver" /\ egressOut'.target = "unresolvable") =>
       /\ egressOut'.result = "threw"
       /\ UNCHANGED <<pq, receipts, circuits, cbVars>>]_vars

C21_Witness ==
  /\ egressOut.op = "deliver" /\ egressOut.target = "unresolvable"
  /\ egressOut.result = "threw"
  /\ circuits
  /\ \E i \in EgressIds : pq[i].exists

\* C27: the status the delivery tracker keeps for an envelope id never goes
\* from read back to delivered, and never from failed to delivered or read.
C27_StatusOnlyForward ==
  [][\A i \in EgressIds :
       /\ ~(receipts[i] = "read" /\ receipts'[i] = "delivered")
       /\ ~(receipts[i] = "failed" /\ receipts'[i] \in {"delivered", "read"})]_vars

(***************************************************************************)
(* Properties of the outbox worker                                         *)
(***************************************************************************)
\* C18: at most one attemptDelivery call for the queue entry awaits sendFn at
\* any time.
C18_OneAttemptInFlight == Len(running) <= 1

\* C19: when the processes have been killed, the entry in the outbox carries
\* the number of delivery attempts that were begun for it.
C19_AttemptCountSurvivesKill ==
  (workerOut = "killed" /\ entry.exists) => entry.attempt = started

====
